---------------------------- MODULE Spec2Model ----------------------------
(***************************************************************************)
(* Model of the Bedrock chat front-ends (1-chat.py, 1-multimodel_chat.py,  *)
(* 1-multimodel_chat_clean_reset.py, 1-multimodel_chat_clean_stream.py,    *)
(* 1-multimodal_chat_clean_stream_latex.py).                               *)
(*                                                                         *)
(* Text is a sequence of lexemes.  A lexeme is a one-character string, or  *)
(* one of the fixed multi-character strings the code searches for or       *)
(* emits as a unit (the four section markers, the headings, the warning,   *)
(* the cursor, the natural-language phrases).  Two marker occurrences      *)
(* cannot overlap in a Python string (each starts with its only '<'), so   *)
(* substring search for a marker is search for its lexeme.                 *)
(***************************************************************************)
EXTENDS Integers, Sequences, FiniteSets, TLC

(***************************************************************************)
(* Lexemes                                                                 *)
(***************************************************************************)
BEGIN_THOUGHT == "<|begin_of_thought|>"
END_THOUGHT == "<|end_of_thought|>"
BEGIN_SOLUTION == "<|begin_of_solution|>"
END_SOLUTION == "<|end_of_solution|>"

\* "### Nova Lite Reasoning for you - ... my best<emoji>": ends with a non-letter
THOUGHT_HEADING == "### Nova Lite Reasoning for you - I am not perfect, but will try my best"
\* "### Solution": kept as prefix + last letter, since the cosmetic pass of the
\* streaming formatter runs over the heading too and can match its last letter
SOLUTION_HEADING == <<"### Solutio", "n">>
WARNING == "*Note: Sorry I could not complete my thought process. Out of Bedrock tokens. Some sections may be incomplete.*"
\* the streaming cursor glyph U+258C
CURSOR == "U+258C"
NL == "\n"
SP == " "
DOLLAR == "$"
BACKSLASH == "\\"
CARET == "^"
LPAREN == "("
RPAREN == ")"
PIPE == "|"

\* the one-letter lexemes ([A-Za-z] of the regular expressions)
Letters == {"a", "b", "c", "d", "e", "f", "g", "h", "i", "l", "m", "n", "o", "p",
            "q", "r", "s", "t", "u", "v", "w", "x", "y", "z", "A", "B"}
\* the set-operator glyphs, named by code point
CUP == "U+222A"
CAP == "U+2229"
SUBSET_GLYPH == "U+2282"
SUPSET_GLYPH == "U+2283"
ELEMENT_GLYPH == "U+2208"
NOT_ELEMENT_GLYPH == "U+2209"

IsLetter(c) == c \in Letters
IsSpace(c) == c \in {SP, NL}

(***************************************************************************)
(* Python string primitives on lexeme sequences                            *)
(***************************************************************************)
Range(s) == {s[i] : i \in 1..Len(s)}

Min(S) == CHOOSE x \in S : \A y \in S : x <= y
Max(S) == CHOOSE x \in S : \A y \in S : x >= y

\* m in text
Contains(text, m) == m \in Range(text)

\* text.find(m), 1-based; 0 when absent
Find(text, m) ==
    LET idx == {i \in 1..Len(text) : text[i] = m}
    IN IF idx = {} THEN 0 ELSE Min(idx)

\* text.split(m, 1)[0] and text.split(m)[0]
BeforeFirst(text, m) ==
    IF Contains(text, m) THEN SubSeq(text, 1, Find(text, m) - 1) ELSE text

\* text.split(m, 1)[1] when m is in text; text.split(m, 1)[-1] in general
AfterFirst(text, m) ==
    IF Contains(text, m) THEN SubSeq(text, Find(text, m) + 1, Len(text)) ELSE text

\* text.strip()
strip(text) ==
    LET idx == {i \in 1..Len(text) : ~IsSpace(text[i])}
    IN IF idx = {} THEN <<>> ELSE SubSeq(text, Min(idx), Max(idx))

\* text.split('\n'): the lines of text, at least one
RECURSIVE SplitLines(_)
SplitLines(text) ==
    IF ~Contains(text, NL) THEN <<text>>
    ELSE <<BeforeFirst(text, NL)>> \o SplitLines(AfterFirst(text, NL))

\* '\n'.join(lines)
RECURSIVE JoinLines(_)
JoinLines(lines) ==
    IF Len(lines) = 0 THEN <<>>
    ELSE IF Len(lines) = 1 THEN lines[1]
    ELSE lines[1] \o <<NL>> \o JoinLines(Tail(lines))

IsPrefix(s, t) == Len(s) <= Len(t) /\ SubSeq(t, 1, Len(s)) = s

(***************************************************************************)
(* Math Rewriter: format_latex and process_math_expressions                *)
(***************************************************************************)
\* The substitution table of replace_math_symbols, in the order of the code:
\* the control sequence (a backslash and its letters) and its glyph, named by
\* code point.
SYMBOL_TABLE == <<
    <<<<BACKSLASH, "c", "u", "p">>, CUP>>,
    <<<<BACKSLASH, "c", "a", "p">>, CAP>>,
    <<<<BACKSLASH, "s", "u", "b", "s", "e", "t">>, SUBSET_GLYPH>>,
    <<<<BACKSLASH, "s", "u", "p", "s", "e", "t">>, SUPSET_GLYPH>>,
    <<<<BACKSLASH, "i", "n">>, ELEMENT_GLYPH>>,
    <<<<BACKSLASH, "n", "o", "t", "i", "n">>, NOT_ELEMENT_GLYPH>>,
    <<<<BACKSLASH, "e", "m", "p", "t", "y", "s", "e", "t">>, "U+2205">>,
    <<<<BACKSLASH, "f", "o", "r", "a", "l", "l">>, "U+2200">>,
    <<<<BACKSLASH, "e", "x", "i", "s", "t", "s">>, "U+2203">>,
    <<<<BACKSLASH, "n", "e", "g">>, "U+00AC">>,
    <<<<BACKSLASH, "w", "e", "d", "g", "e">>, "U+2227">>,
    <<<<BACKSLASH, "v", "e", "e">>, "U+2228">>,
    <<<<BACKSLASH, "l", "e", "q">>, "U+2264">>,
    <<<<BACKSLASH, "g", "e", "q">>, "U+2265">>,
    <<<<BACKSLASH, "n", "e", "q">>, "U+2260">>,
    <<<<BACKSLASH, "a", "p", "p", "r", "o", "x">>, "U+2248">>,
    <<<<BACKSLASH, "c", "d", "o", "t">>, "U+00B7">>,
    <<<<BACKSLASH, "t", "i", "m", "e", "s">>, "U+00D7">>,
    <<<<BACKSLASH, "d", "i", "v">>, "U+00F7">>,
    <<<<BACKSLASH, "p", "m">>, "U+00B1">>,
    <<<<BACKSLASH, "i", "n", "f", "t", "y">>, "U+221E">>,
    <<<<BACKSLASH, "s", "u", "m">>, "U+2211">>,
    <<<<BACKSLASH, "p", "r", "o", "d">>, "U+220F">>,
    <<<<BACKSLASH, "r", "i", "g", "h", "t", "a", "r", "r", "o", "w">>, "U+2192">>,
    <<<<BACKSLASH, "l", "e", "f", "t", "a", "r", "r", "o", "w">>, "U+2190">>,
    <<<<BACKSLASH, "l", "e", "f", "t", "r", "i", "g", "h", "t", "a", "r", "r", "o", "w">>, "U+2194">>
>>

\* re.sub(pattern, glyph, expr) for a literal pattern, from index i on
RECURSIVE LiteralSub(_, _, _, _)
LiteralSub(expr, i, pattern, glyph) ==
    IF i > Len(expr) THEN <<>>
    ELSE IF /\ i + Len(pattern) - 1 <= Len(expr)
            /\ SubSeq(expr, i, i + Len(pattern) - 1) = pattern
    THEN <<glyph>> \o LiteralSub(expr, i + Len(pattern), pattern, glyph)
    ELSE <<expr[i]>> \o LiteralSub(expr, i + 1, pattern, glyph)

\* the substitutions of the table applied one after the other, in the order
\* given as a sequence of row numbers, from the k-th of them on
RECURSIVE SubstituteInOrder(_, _, _)
SubstituteInOrder(expr, order, k) ==
    IF k > Len(order) THEN expr
    ELSE SubstituteInOrder(
             LiteralSub(expr, 1, SYMBOL_TABLE[order[k]][1], SYMBOL_TABLE[order[k]][2]),
             order, k + 1)

\* the order of the code: lines 40 to 65, top to bottom
CodeOrder == [k \in 1..Len(SYMBOL_TABLE) |-> k]

\* re.sub(r'\|([^|]+)\|', 'size(\1)', expr) from index i on
RECURSIVE SetSizeSub(_, _)
SetSizeSub(expr, i) ==
    IF i > Len(expr) THEN <<>>
    ELSE LET close == {j \in (i + 1)..Len(expr) : expr[j] = PIPE}
         IN IF expr[i] = PIPE /\ close # {} /\ Min(close) >= i + 2
            THEN <<"s", "i", "z", "e", LPAREN>> \o SubSeq(expr, i + 1, Min(close) - 1)
                     \o <<RPAREN>> \o SetSizeSub(expr, Min(close) + 1)
            ELSE <<expr[i]>> \o SetSizeSub(expr, i + 1)

\* The body of replace_math_symbols after its first line (lines 40 to 68): what
\* it would return for the span content expr.
replace_math_symbols(expr) ==
    SetSizeSub(SubstituteInOrder(expr, CodeOrder, 1), 1)

\* The regex \$\$(.*?)\$\$ matches at position i: "$$", then the shortest run of
\* non-newline characters that is followed by "$$".
InlineMatchAt(text, i) ==
    /\ i + 3 <= Len(text)
    /\ text[i] = DOLLAR /\ text[i + 1] = DOLLAR
    /\ \E j \in (i + 2)..(Len(text) - 1) :
          /\ text[j] = DOLLAR /\ text[j + 1] = DOLLAR
          /\ \A k \in (i + 2)..(j - 1) : text[k] # NL

\* replace_math_symbols(match) reads match.group(1), and both of its call sites
\* pass a str (m.group(1), latex_str): the call raises AttributeError before any
\* substitution is made.
replace_math_symbols_raises == TRUE

\* re.sub calls the replacement for the leftmost match, which exists iff some
\* position matches.
InlinePassRaises(text) ==
    replace_math_symbols_raises /\ \E i \in 1..Len(text) : InlineMatchAt(text, i)

\* The line loop of format_latex from line i on.  Result: the formatted lines,
\* and whether a fenced block was closed (replace_math_symbols is then called).
RECURSIVE LatexBlockLoop(_, _, _, _)
LatexBlockLoop(lines, i, in_latex_block, formatted_lines) ==
    IF i > Len(lines)
    THEN [raises |-> FALSE, lines |-> formatted_lines]
    ELSE IF strip(lines[i]) = <<DOLLAR, DOLLAR>> /\ ~in_latex_block
    THEN LatexBlockLoop(lines, i + 1, TRUE, formatted_lines)
    ELSE IF strip(lines[i]) = <<DOLLAR, DOLLAR>> /\ in_latex_block
    THEN [raises |-> replace_math_symbols_raises, lines |-> formatted_lines]
    ELSE IF in_latex_block
    THEN LatexBlockLoop(lines, i + 1, in_latex_block, formatted_lines)
    ELSE LatexBlockLoop(lines, i + 1, in_latex_block, Append(formatted_lines, lines[i]))

format_latex_raises(text) ==
    \/ InlinePassRaises(text)
    \/ LatexBlockLoop(SplitLines(text), 1, FALSE, <<>>).raises

\* The value format_latex returns when it does not raise.
format_latex(text) ==
    JoinLines(LatexBlockLoop(SplitLines(text), 1, FALSE, <<>>).lines)

\* first index >= i of a non-whitespace lexeme, Len(text)+1 when there is none
SkipSpace(text, i) ==
    LET idx == {k \in i..Len(text) : ~IsSpace(text[k])}
    IN IF idx = {} THEN Len(text) + 1 ELSE Min(idx)

\* re.sub(r'([A-Za-z])\s*G\s*([A-Za-z])', r'\1 phrase \2', text) from index i on
RECURSIVE GlyphSub(_, _, _, _)
GlyphSub(text, i, glyph, phrase) ==
    IF i > Len(text) THEN <<>>
    ELSE LET j == SkipSpace(text, i + 1)
             k == SkipSpace(text, j + 1)
         IN IF /\ IsLetter(text[i])
               /\ j <= Len(text) /\ text[j] = glyph
               /\ k <= Len(text) /\ IsLetter(text[k])
            THEN <<text[i], SP, phrase, SP, text[k]>> \o GlyphSub(text, k + 1, glyph, phrase)
            ELSE <<text[i]>> \o GlyphSub(text, i + 1, glyph, phrase)

\* "the size of ": its first and last letters are kept as lexemes of their own,
\* since the later passes can match either of them next to a glyph
SIZE_PHRASE == <<"t", "he size o", "f", SP>>

\* re.sub(r'size\(([^)]+)\)', "the size of \1", text) from index i on
RECURSIVE SizeSub(_, _)
SizeSub(text, i) ==
    IF i > Len(text) THEN <<>>
    ELSE LET close == {j \in (i + 5)..Len(text) : text[j] = RPAREN}
         IN IF /\ i + 6 <= Len(text)
               /\ SubSeq(text, i, i + 4) = <<"s", "i", "z", "e", LPAREN>>
               /\ close # {} /\ Min(close) >= i + 6
            THEN SIZE_PHRASE \o SubSeq(text, i + 5, Min(close) - 1)
                     \o SizeSub(text, Min(close) + 1)
            ELSE <<text[i]>> \o SizeSub(text, i + 1)

process_math_expressions(text) ==
    LET t1 == SizeSub(text, 1)
        t2 == GlyphSub(t1, 1, CUP, "union")
        t3 == GlyphSub(t2, 1, CAP, "intersect")
        t4 == GlyphSub(t3, 1, SUBSET_GLYPH, "is a subset of")
        t5 == GlyphSub(t4, 1, SUPSET_GLYPH, "is a superset of")
        t6 == GlyphSub(t5, 1, ELEMENT_GLYPH, "is an element of")
    IN GlyphSub(t6, 1, NOT_ELEMENT_GLYPH, "is not an element of")

(***************************************************************************)
(* Tag Extractor: check_missing_tags, format_streaming_response,           *)
(* format_final_response                                                   *)
(***************************************************************************)
\* a checker that looks at the thought section only
check_missing_tags_ThoughtOnly(text) ==
    Contains(text, BEGIN_THOUGHT) /\ ~Contains(text, END_THOUGHT)

check_missing_tags(text) ==
    LET begin_thought == Contains(text, BEGIN_THOUGHT)
        end_thought == Contains(text, END_THOUGHT)
        begin_solution == Contains(text, BEGIN_SOLUTION)
        end_solution == Contains(text, END_SOLUTION)
        missing_thought == begin_thought /\ ~end_thought
        missing_solution == begin_solution /\ ~end_solution
    IN missing_thought \/ missing_solution

\* text.rfind(m), 1-based; 0 when absent
FindLast(text, m) ==
    LET idx == {i \in 1..Len(text) : text[i] = m}
    IN IF idx = {} THEN 0 ELSE Max(idx)

\* an alternative extractor: the thought content runs to the last END_THOUGHT (rsplit)
StreamingThoughtContent_LastEnd(text) ==
    LET thought_content == AfterFirst(text, BEGIN_THOUGHT)
    IN IF Contains(thought_content, END_THOUGHT)
       THEN SubSeq(thought_content, 1, FindLast(thought_content, END_THOUGHT) - 1)
       ELSE thought_content

\* thought_content of format_streaming_response (lines 128-134)
StreamingThoughtContent(text) ==
    LET thought_content == AfterFirst(text, BEGIN_THOUGHT)
    IN IF Contains(thought_content, END_THOUGHT)
       THEN BeforeFirst(thought_content, END_THOUGHT)
       ELSE thought_content

\* current_text of format_streaming_response once the thought block has run
\* (lines 122, 135): the text in which the solution section is searched
StreamingSolutionZone(text) ==
    IF Contains(text, BEGIN_THOUGHT) /\ Contains(AfterFirst(text, BEGIN_THOUGHT), END_THOUGHT)
    THEN AfterFirst(text, END_THOUGHT)
    ELSE text

\* solution_content of format_streaming_response (lines 143-149)
StreamingSolutionContent(text) ==
    LET solution_content == AfterFirst(StreamingSolutionZone(text), BEGIN_SOLUTION)
    IN IF Contains(solution_content, END_SOLUTION)
       THEN BeforeFirst(solution_content, END_SOLUTION)
       ELSE solution_content

format_streaming_response_raises(text, is_reasoning_prompt) ==
    IF ~is_reasoning_prompt THEN format_latex_raises(text)
    ELSE \/ Contains(text, BEGIN_THOUGHT) /\ format_latex_raises(StreamingThoughtContent(text))
         \/ /\ Contains(StreamingSolutionZone(text), BEGIN_SOLUTION)
            /\ format_latex_raises(StreamingSolutionContent(text))
         \/ /\ ~Contains(text, BEGIN_THOUGHT)
            /\ ~Contains(StreamingSolutionZone(text), BEGIN_SOLUTION)
            /\ format_latex_raises(StreamingSolutionZone(text))

\* an alternative streaming formatter: once a section has started, the rendering
\* is returned without the cursor
format_streaming_response_BareSections(text, is_reasoning_prompt) ==
    IF ~is_reasoning_prompt
    THEN process_math_expressions(format_latex(text)) \o <<CURSOR>>
    ELSE LET current_text == StreamingSolutionZone(text)
             thought_part ==
                 IF Contains(text, BEGIN_THOUGHT)
                 THEN process_math_expressions(
                          <<THOUGHT_HEADING, NL, NL>>
                              \o format_latex(StreamingThoughtContent(text)) \o <<NL, NL>>)
                 ELSE <<>>
             formatted_text ==
                 IF Contains(current_text, BEGIN_SOLUTION)
                 THEN process_math_expressions(
                          thought_part \o SOLUTION_HEADING \o <<NL, NL>>
                              \o format_latex(StreamingSolutionContent(text)))
                 ELSE thought_part
         IN IF formatted_text = <<>>
            THEN process_math_expressions(format_latex(current_text)) \o <<CURSOR>>
            ELSE strip(formatted_text)

format_streaming_response(text, is_reasoning_prompt) ==
    IF ~is_reasoning_prompt
    THEN process_math_expressions(format_latex(text)) \o <<CURSOR>>
    ELSE LET current_text == StreamingSolutionZone(text)
             thought_part ==
                 IF Contains(text, BEGIN_THOUGHT)
                 THEN process_math_expressions(
                          <<THOUGHT_HEADING, NL, NL>>
                              \o format_latex(StreamingThoughtContent(text)) \o <<NL, NL>>)
                 ELSE <<>>
             formatted_text ==
                 IF Contains(current_text, BEGIN_SOLUTION)
                 THEN process_math_expressions(
                          thought_part \o SOLUTION_HEADING \o <<NL, NL>>
                              \o format_latex(StreamingSolutionContent(text)))
                 ELSE thought_part
         IN IF formatted_text = <<>>
            THEN process_math_expressions(format_latex(current_text)) \o <<CURSOR>>
            ELSE strip(formatted_text) \o <<CURSOR>>

\* group(1) of re.search(BEGIN + r'(.*?)(?:' + END + r'|$)', text, re.DOTALL):
\* from the first BEGIN to the first END after it, else to the end of the text
\* ('$' also matches just before a newline that ends the text)
LazyGroup(text, begin, end) ==
    LET rest == AfterFirst(text, begin)
    IN IF Contains(rest, end) THEN BeforeFirst(rest, end)
       ELSE IF Len(rest) > 0 /\ rest[Len(rest)] = NL THEN SubSeq(rest, 1, Len(rest) - 1)
       ELSE rest

\* thought_content of format_final_response (lines 169-170)
FinalThoughtContent(text) ==
    IF Contains(text, BEGIN_THOUGHT)
    THEN strip(LazyGroup(text, BEGIN_THOUGHT, END_THOUGHT))
    ELSE <<>>

\* solution_content of format_final_response (lines 173-174)
FinalSolutionContent(text) ==
    IF Contains(text, BEGIN_SOLUTION)
    THEN strip(LazyGroup(text, BEGIN_SOLUTION, END_SOLUTION))
    ELSE <<>>

format_final_response_raises(text, is_reasoning_prompt, is_stream_complete) ==
    IF ~is_reasoning_prompt THEN format_latex_raises(text)
    ELSE \/ FinalThoughtContent(text) # <<>> /\ format_latex_raises(FinalThoughtContent(text))
         \/ FinalSolutionContent(text) # <<>> /\ format_latex_raises(FinalSolutionContent(text))
         \/ /\ FinalThoughtContent(text) = <<>> /\ FinalSolutionContent(text) = <<>>
            /\ ~(is_stream_complete /\ check_missing_tags(text))
            /\ format_latex_raises(text)

format_final_response(text, is_reasoning_prompt, is_stream_complete) ==
    IF ~is_reasoning_prompt
    THEN process_math_expressions(format_latex(text))
    ELSE LET thought_content == FinalThoughtContent(text)
             solution_content == FinalSolutionContent(text)
             thought_part ==
                 IF thought_content # <<>>
                 THEN <<THOUGHT_HEADING, NL, NL>>
                          \o process_math_expressions(format_latex(thought_content))
                          \o <<NL, NL>>
                 ELSE <<>>
             solution_part ==
                 IF solution_content # <<>>
                 THEN SOLUTION_HEADING \o <<NL, NL>>
                          \o process_math_expressions(format_latex(solution_content))
                 ELSE <<>>
             warning_part ==
                 IF is_reasoning_prompt /\ is_stream_complete /\ check_missing_tags(text)
                 THEN <<NL, NL, WARNING>>
                 ELSE <<>>
             formatted_text == thought_part \o solution_part \o warning_part
         IN IF formatted_text = <<>>
            THEN strip(process_math_expressions(format_latex(text)))
            ELSE strip(formatted_text)

(***************************************************************************)
(* wrap_math_expressions (1-multimodal_chat_clean_stream_latex.py)         *)
(***************************************************************************)
\* an alternative inner loop: it stops at the first closing parenthesis,
\* whatever the depth
MatchingParen_FirstClose(text, j, depth) ==
    LET close == {k \in j..Len(text) : text[k] = RPAREN}
    IN IF close = {} THEN Len(text) + 1 ELSE Min(close)

\* The inner while loop: the index of the parenthesis that closes the one at
\* start, or Len(text)+1 when the scan runs off the end.
RECURSIVE MatchingParen(_, _, _)
MatchingParen(text, j, depth) ==
    IF j > Len(text) THEN j
    ELSE IF text[j] = LPAREN THEN MatchingParen(text, j + 1, depth + 1)
    ELSE IF text[j] = RPAREN
         THEN IF depth - 1 = 0 THEN j ELSE MatchingParen(text, j + 1, depth - 1)
    ELSE MatchingParen(text, j + 1, depth)

RECURSIVE WrapFrom(_, _)
WrapFrom(text, i) ==
    IF i > Len(text) THEN <<>>
    ELSE LET j == MatchingParen(text, i, 0)
             candidate == SubSeq(text, i + 1, j - 1)
         IN IF /\ text[i] = LPAREN
               /\ j <= Len(text)
               /\ (Contains(candidate, BACKSLASH) \/ Contains(candidate, CARET))
            THEN <<DOLLAR>> \o strip(candidate) \o <<DOLLAR>> \o WrapFrom(text, j + 1)
            ELSE <<text[i]>> \o WrapFrom(text, i + 1)

wrap_math_expressions(text) == WrapFrom(text, 1)

(***************************************************************************)
(* The scripts.  One Streamlit session of one of the five scripts: every   *)
(* user interaction reruns the script from the top with the widget values  *)
(* of that moment; st.session_state (messages, selected_model,             *)
(* system_prompt) is what survives from one run to the next.               *)
(***************************************************************************)
Variants == {"chat", "multimodel", "reset", "stream", "latex"}
\* 1-chat.py; 1-multimodel_chat.py; 1-multimodel_chat_clean_reset.py;
\* 1-multimodel_chat_clean_stream.py; 1-multimodal_chat_clean_stream_latex.py

StreamingVariants == {"stream", "latex"}
\* the scripts with a "Select Model" selectbox
ModelPickerVariants == {"multimodel", "reset", "stream", "latex"}
\* the scripts with a "Choose Prompt" radio
PromptPickerVariants == {"reset", "stream", "latex"}

\* MODEL_OPTIONS: the selectable model ids (values of the dict)
MODEL_OPTIONS == {"nova-micro", "nova-lite", "nova-pro", "provisioned-model"}
\* index=3 of the selectbox
DEFAULT_MODEL == "provisioned-model"
\* 1-chat.py has no selectbox: MODEL_ID is the fixed provisioned model
PromptChoices == {"Reasoning Prompt", "Default Prompt"}

\* Bounds of the model
MaxTurns == 3
MaxChunks == 2
MaxPieces == 4

\* the model ids a user selects in the model (two of MODEL_OPTIONS)
Models == {"nova-lite", "provisioned-model"}
\* texts a user submits (st.chat_input never returns an empty string)
Prompts == {<<"a">>, <<"b">>}
\* the free text a user types into the "System Prompt" text area
CustomPrompts == {"custom"}
\* texts converse returns in the non-streaming scripts
Responses == {<<"a">>, <<>>}

NoPrompt == <<>>
NoEdit == "no edit"
NoRequest == [modelId |-> "none", messages |-> <<>>, system |-> <<>>]

\* what a stream delivers, by vocabulary: text deltas of contentBlockDelta events
Vocabulary(v) ==
    IF v = "chat"
    THEN {<<BEGIN_THOUGHT, "a">>, <<BEGIN_THOUGHT>>, <<"a">>}
    ELSE IF v = "tags"
    THEN {<<BEGIN_THOUGHT>>, <<END_THOUGHT>>, <<BEGIN_SOLUTION>>, <<END_SOLUTION>>,
          <<"a">>}
    ELSE IF v = "latex"
    THEN {<<DOLLAR, DOLLAR>>, <<NL>>, <<"a">>, <<SP>>, <<>>}
    ELSE IF v = "symbols"
    THEN {<<DOLLAR, DOLLAR>>, <<BACKSLASH, "i", "n">>, <<"f", "t", "y">>,
          <<BACKSLASH, "n", "o", "t", "i", "n">>}
    ELSE IF v = "thought"
    THEN {<<BEGIN_THOUGHT, "A", CUP, "B">>, <<CUP, "B">>, <<END_THOUGHT>>,
          <<BEGIN_SOLUTION>>, <<"a">>}
    ELSE \* "parens"
         {<<LPAREN>>, <<RPAREN>>, <<BACKSLASH>>, <<CARET>>, <<SP>>}

\* the vocabularies of the streams of one streamed reply
StreamVocabularies == {"tags", "latex", "symbols", "thought", "parens"}

MaxEvents(v) == IF v = "chat" THEN MaxChunks ELSE MaxPieces

VARIABLES
    variant,            \* which script runs
    vocabulary,         \* which deltas the endpoint's streams are made of
    messages,           \* st.session_state.messages: the Conversation
    selected_model,     \* st.session_state.selected_model
    session_prompt,     \* st.session_state.system_prompt
    MODEL_ID,           \* MODEL_OPTIONS[selected_model_label] of the current run
    prompt_choice,      \* value of the "Choose Prompt" radio
    text_area_edit,     \* what the user typed into the text area, or NoEdit
    system_prompt,      \* system_prompt as sent with requests (text area value)
    prompt,             \* value of st.chat_input in the current run
    pc,                 \* position of the script
    request,            \* the converse / converse_stream request of this run
    n_events,           \* contentBlockDelta events delivered by the stream
    gen_full_response,  \* full_response of stream_response (the generator)
    full_response,      \* full_response of the user input handler (the consumer)
    placeholder,        \* what response_placeholder shows
    rendering,          \* "none", "partial" (mid-stream) or "final"
    displayed,          \* the Turns drawn by this run, in order
    error,              \* what this run reported: "none", "client", "request", "AttributeError"
    pre_messages,       \* history: the Conversation when this run started
    prev_MODEL_ID,      \* history: MODEL_ID of the previous run
    prev_prompt_choice, \* history: prompt_choice of the previous run
    prev_system_prompt  \* history: system_prompt of the previous run

vars == <<variant, vocabulary, messages, selected_model, session_prompt, MODEL_ID,
          prompt_choice, text_area_edit, system_prompt, prompt, pc, request, n_events,
          gen_full_response, full_response, placeholder, rendering, displayed, error,
          pre_messages, prev_MODEL_ID, prev_prompt_choice, prev_system_prompt>>

config_vars == <<variant, vocabulary>>
widget_vars == <<MODEL_ID, prompt_choice, text_area_edit, prompt>>
session_vars == <<selected_model, session_prompt>>
stream_vars == <<n_events, gen_full_response, full_response, placeholder, rendering>>
history_vars == <<pre_messages, prev_MODEL_ID, prev_prompt_choice, prev_system_prompt>>

Turn(role, content) == [role |-> role, content |-> content]

\* reasoning_prompt if prompt_choice == "Reasoning Prompt" else default_prompt
PresetPrompt(choice) ==
    IF choice = "Reasoning Prompt" THEN "reasoning_prompt" ELSE "default_prompt"

\* value of st.text_area("System Prompt", value=...): the user's edit when there
\* is one, else the value argument (the preset; the fixed reasoning text in the
\* scripts without a radio)
TextAreaValue(v, choice, edit) ==
    IF edit # NoEdit THEN edit
    ELSE IF v \in PromptPickerVariants THEN PresetPrompt(choice)
    ELSE "reasoning_prompt"

\* is_reasoning_prompt = (prompt_choice == "Reasoning Prompt")
is_reasoning_prompt == prompt_choice = "Reasoning Prompt"

\* the scripts whose sidebar compares st.session_state.selected_model with MODEL_ID
TracksModel(v) == v \in {"reset", "stream", "latex"}
\* the scripts whose sidebar compares st.session_state.system_prompt with the preset
TracksPrompt(v) == v \in {"stream", "latex"}

\* 1-chat.py creates the client before the sidebar; the others after it
FirstPc(v) == IF v = "chat" THEN "client" ELSE "sidebar"
AfterSidebar(v) == IF v = "chat" THEN "history" ELSE "client"
AfterClient(v) == IF v = "chat" THEN "sidebar" ELSE "history"

\* The state after the first run of the script (the page load): widgets at
\* their defaults, session state initialised, empty Conversation.
InitSession ==
    /\ messages = <<>>
    /\ selected_model = DEFAULT_MODEL
    /\ session_prompt = "reasoning_prompt"
    /\ MODEL_ID = DEFAULT_MODEL
    /\ prompt_choice = "Reasoning Prompt"
    /\ text_area_edit = NoEdit
    /\ system_prompt = "reasoning_prompt"
    /\ prompt = NoPrompt
    /\ request = NoRequest
    /\ n_events = 0
    /\ gen_full_response = <<>>
    /\ full_response = <<>>
    /\ placeholder = <<>>
    /\ rendering = "none"
    /\ displayed = <<>>
    /\ error = "none"
    /\ pre_messages = <<>>
    /\ prev_MODEL_ID = DEFAULT_MODEL
    /\ prev_prompt_choice = "Reasoning Prompt"
    /\ prev_system_prompt = "reasoning_prompt"

Init ==
    /\ variant \in Variants
    /\ vocabulary = "chat"
    /\ pc = "idle"
    /\ InitSession

\* A widget interaction starts a rerun: the script's locals start afresh.
StartRun ==
    /\ pc = "idle"
    /\ pc' = FirstPc(variant)
    /\ request' = NoRequest
    /\ n_events' = 0
    /\ gen_full_response' = <<>>
    /\ full_response' = <<>>
    /\ placeholder' = <<>>
    /\ rendering' = "none"
    /\ displayed' = <<>>
    /\ error' = "none"
    /\ pre_messages' = messages
    /\ prev_MODEL_ID' = MODEL_ID
    /\ prev_prompt_choice' = prompt_choice
    /\ prev_system_prompt' = system_prompt
    /\ UNCHANGED <<config_vars, messages, session_vars, system_prompt>>

\* the user picks another model in the selectbox
SelectModel(m) ==
    /\ variant \in ModelPickerVariants
    /\ m # MODEL_ID
    /\ StartRun
    /\ MODEL_ID' = m
    /\ prompt' = NoPrompt
    /\ UNCHANGED <<prompt_choice, text_area_edit>>

\* the user picks the other preset in the radio; the text area, whose value
\* argument changes with the preset, shows the new preset
ChoosePrompt(c) ==
    /\ variant \in PromptPickerVariants
    /\ c # prompt_choice
    /\ StartRun
    /\ prompt_choice' = c
    /\ text_area_edit' = NoEdit
    /\ prompt' = NoPrompt
    /\ UNCHANGED MODEL_ID

\* the user types a system prompt of their own into the text area
EditSystemPrompt(t) ==
    /\ t # text_area_edit
    /\ StartRun
    /\ text_area_edit' = t
    /\ prompt' = NoPrompt
    /\ UNCHANGED <<MODEL_ID, prompt_choice>>

\* the user moves a slider or number input of the inference parameters
AdjustParameter ==
    /\ StartRun
    /\ prompt' = NoPrompt
    /\ UNCHANGED <<MODEL_ID, prompt_choice, text_area_edit>>

\* the user submits a text in st.chat_input
Submit(p) ==
    /\ Len(messages) < MaxTurns
    /\ StartRun
    /\ prompt' = p
    /\ UNCHANGED <<MODEL_ID, prompt_choice, text_area_edit>>

\* The Conversation after the sidebar's reset logic
SidebarMessages ==
    IF \/ TracksModel(variant) /\ selected_model # MODEL_ID
       \/ TracksPrompt(variant) /\ session_prompt # PresetPrompt(prompt_choice)
    THEN <<>>
    ELSE messages

\* an alternative sidebar: it clears on a model change but never records the new
\* model in st.session_state.selected_model
Sidebar_StaleModel ==
    /\ pc = "sidebar"
    /\ selected_model' = selected_model
    /\ session_prompt' = IF TracksPrompt(variant) THEN PresetPrompt(prompt_choice)
                         ELSE session_prompt
    /\ messages' = SidebarMessages
    /\ system_prompt' = TextAreaValue(variant, prompt_choice, text_area_edit)
    /\ pc' = AfterSidebar(variant)
    /\ UNCHANGED <<config_vars, widget_vars, request, stream_vars, displayed, error,
                   history_vars>>

\* with st.sidebar: model tracking, prompt tracking, the text area
Sidebar ==
    /\ pc = "sidebar"
    /\ selected_model' = IF TracksModel(variant) THEN MODEL_ID ELSE selected_model
    /\ session_prompt' = IF TracksPrompt(variant) THEN PresetPrompt(prompt_choice)
                         ELSE session_prompt
    /\ messages' = SidebarMessages
    /\ system_prompt' = TextAreaValue(variant, prompt_choice, text_area_edit)
    /\ pc' = AfterSidebar(variant)
    /\ UNCHANGED <<config_vars, widget_vars, request, stream_vars, displayed, error,
                   history_vars>>

\* an alternative client creation: the failure is reported but the script
\* goes on
ClientInit_NoStop(ok) ==
    /\ pc = "client"
    /\ pc' = AfterClient(variant)
    /\ error' = IF ok THEN error ELSE "client"
    /\ UNCHANGED <<config_vars, widget_vars, session_vars, messages, system_prompt,
                   request, stream_vars, displayed, history_vars>>

\* boto3.client("bedrock-runtime", ...) in try/except; st.stop() on failure
ClientInit(ok) ==
    /\ pc = "client"
    /\ IF ok THEN pc' = AfterClient(variant) /\ error' = error
       ELSE pc' = "idle" /\ error' = "client"
    /\ UNCHANGED <<config_vars, widget_vars, session_vars, messages, system_prompt,
                   request, stream_vars, displayed, history_vars>>

\* for message in st.session_state.messages: st.markdown(message["content"])
DisplayHistory ==
    /\ pc = "history"
    /\ displayed' = messages
    /\ pc' = "input"
    /\ UNCHANGED <<config_vars, widget_vars, session_vars, messages, system_prompt,
                   request, stream_vars, error, history_vars>>

\* {"role": ..., "content": [{"text": ...}]}
ApiMessage(role, text) == [role |-> role, content |-> <<[text |-> text]>>]

\* messages = [{"role": "user", "content": [{"text": prompt}]}]
RequestMessages(conversation, p) == <<ApiMessage("user", p)>>

\* an alternative handler: the submitted prompt is displayed and sent, but not
\* stored in the Conversation
UserInput_NotStored ==
    /\ pc = "input"
    /\ IF prompt = NoPrompt
       THEN /\ pc' = "idle"
            /\ UNCHANGED <<messages, displayed, request>>
       ELSE /\ messages' = messages
            /\ displayed' = Append(displayed, Turn("user", prompt))
            /\ request' = [modelId |-> MODEL_ID,
                           messages |-> RequestMessages(Append(messages, Turn("user", prompt)), prompt),
                           system |-> <<system_prompt>>]
            /\ pc' = "call"
    /\ UNCHANGED <<config_vars, widget_vars, session_vars, system_prompt, stream_vars,
                   error, history_vars>>

\* if prompt := st.chat_input(...): append the user Turn, build the request
UserInput ==
    /\ pc = "input"
    /\ IF prompt = NoPrompt
       THEN /\ pc' = "idle"
            /\ UNCHANGED <<messages, displayed, request>>
       ELSE /\ messages' = Append(messages, Turn("user", prompt))
            /\ displayed' = Append(displayed, Turn("user", prompt))
            /\ request' = [modelId |-> MODEL_ID,
                           messages |-> RequestMessages(messages', prompt),
                           system |-> <<system_prompt>>]
            /\ pc' = "call"
    /\ UNCHANGED <<config_vars, widget_vars, session_vars, system_prompt, stream_vars,
                   error, history_vars>>

\* client.converse(...) returns: the text is shown and appended
ConverseReturns(response_text) ==
    /\ pc = "call" /\ variant \notin StreamingVariants
    /\ displayed' = Append(displayed, Turn("assistant", response_text))
    /\ messages' = Append(messages, Turn("assistant", response_text))
    /\ pc' = "idle"
    /\ UNCHANGED <<config_vars, widget_vars, session_vars, system_prompt, request,
                   stream_vars, error, history_vars>>

\* an alternative failure path: the handler is run again after the error
ConverseRaises_Retry ==
    /\ pc = "call" /\ variant \notin StreamingVariants
    /\ error' = "request"
    /\ pc' = "input"
    /\ UNCHANGED <<config_vars, widget_vars, session_vars, messages, system_prompt,
                   request, stream_vars, displayed, history_vars>>

\* client.converse(...) raises (or the response has no text): except -> st.error
ConverseRaises ==
    /\ pc = "call" /\ variant \notin StreamingVariants
    /\ error' = "request"
    /\ pc' = "idle"
    /\ UNCHANGED <<config_vars, widget_vars, session_vars, messages, system_prompt,
                   request, stream_vars, displayed, history_vars>>

\* stream_response: client.converse_stream(...) returns an event stream
ConverseStreamReturns ==
    /\ pc = "call" /\ variant \in StreamingVariants
    /\ pc' = "streaming"
    /\ UNCHANGED <<config_vars, widget_vars, session_vars, messages, system_prompt,
                   request, stream_vars, displayed, error, history_vars>>

\* stream_response: converse_stream or the iteration of the stream raises; the
\* generator catches it, reports it and returns, which ends the consumer's loop
StreamRaises ==
    /\ pc \in {"call", "streaming"} /\ variant \in StreamingVariants
    /\ error' = "request"
    /\ pc' = "final"
    /\ UNCHANGED <<config_vars, widget_vars, session_vars, messages, system_prompt,
                   request, stream_vars, displayed, history_vars>>

\* the stream is exhausted: the generator returns
StreamEnds ==
    /\ pc = "streaming"
    /\ pc' = "final"
    /\ UNCHANGED <<config_vars, widget_vars, session_vars, messages, system_prompt,
                   request, stream_vars, displayed, error, history_vars>>

\* an alternative loop body: the consumer renders the new fragment only and
\* appends it to the rendering on display
StreamChunk_Incremental(chunk) ==
    /\ pc = "streaming"
    /\ n_events' = n_events + 1
    /\ gen_full_response' = gen_full_response \o chunk
    /\ IF variant = "stream"
       THEN \* yield chunk; if chunk: full_response += chunk; render
            LET buffer == full_response \o chunk
            IN IF chunk = <<>>
               THEN UNCHANGED <<full_response, placeholder, rendering, error, pc>>
               ELSE /\ full_response' = buffer
                    /\ IF format_streaming_response_raises(buffer, is_reasoning_prompt)
                       THEN /\ error' = "AttributeError"
                            /\ pc' = "idle"
                            /\ UNCHANGED <<placeholder, rendering>>
                       ELSE /\ placeholder' =
                                   SubSeq(placeholder, 1, Len(placeholder) - 1)
                                       \o format_streaming_response(chunk,
                                                                    is_reasoning_prompt)
                            /\ rendering' = "partial"
                            /\ UNCHANGED <<error, pc>>
       ELSE \* yield wrap_math_expressions(full_response); if rendered_chunk: render
            LET rendered_chunk == wrap_math_expressions(gen_full_response')
            IN /\ IF rendered_chunk = <<>>
                  THEN UNCHANGED <<placeholder, rendering>>
                  ELSE /\ placeholder' = rendered_chunk \o <<CURSOR>>
                       /\ rendering' = "partial"
               /\ UNCHANGED <<full_response, error, pc>>
    /\ UNCHANGED <<config_vars, widget_vars, session_vars, messages, system_prompt,
                   request, displayed, history_vars>>

\* One contentBlockDelta event: the generator's loop body and the consumer's.
StreamChunk(chunk) ==
    /\ pc = "streaming"
    /\ n_events' = n_events + 1
    /\ gen_full_response' = gen_full_response \o chunk
    /\ IF variant = "stream"
       THEN \* yield chunk; if chunk: full_response += chunk; render
            LET buffer == full_response \o chunk
            IN IF chunk = <<>>
               THEN UNCHANGED <<full_response, placeholder, rendering, error, pc>>
               ELSE /\ full_response' = buffer
                    /\ IF format_streaming_response_raises(buffer, is_reasoning_prompt)
                       THEN /\ error' = "AttributeError"
                            /\ pc' = "idle"
                            /\ UNCHANGED <<placeholder, rendering>>
                       ELSE /\ placeholder' =
                                   format_streaming_response(buffer, is_reasoning_prompt)
                            /\ rendering' = "partial"
                            /\ UNCHANGED <<error, pc>>
       ELSE \* yield wrap_math_expressions(full_response); if rendered_chunk: render
            LET rendered_chunk == wrap_math_expressions(gen_full_response')
            IN /\ IF rendered_chunk = <<>>
                  THEN UNCHANGED <<placeholder, rendering>>
                  ELSE /\ placeholder' = rendered_chunk \o <<CURSOR>>
                       /\ rendering' = "partial"
               /\ UNCHANGED <<full_response, error, pc>>
    /\ UNCHANGED <<config_vars, widget_vars, session_vars, messages, system_prompt,
                   request, displayed, history_vars>>

StreamDelivers ==
    \E chunk \in Vocabulary(vocabulary) :
        n_events < MaxEvents(vocabulary) /\ StreamChunk(chunk)

\* the text of the final rendering of the consumer's buffer
FinalRendering(v, buffer, tagged) ==
    IF v = "stream" THEN format_final_response(buffer, tagged, TRUE)
    ELSE wrap_math_expressions(buffer)

\* whether the consumer appends the assistant Turn
FinalAppends(v, buffer, final) ==
    IF v = "stream" THEN buffer # <<>> ELSE final # <<>>

\* After the loop: final rendering, then the assistant Turn.
Finalize ==
    /\ pc = "final"
    /\ pc' = "idle"
    /\ IF variant = "stream" /\ format_final_response_raises(full_response, is_reasoning_prompt, TRUE)
       THEN /\ error' = "AttributeError"
            /\ UNCHANGED <<placeholder, rendering, messages, displayed>>
       ELSE LET final == FinalRendering(variant, full_response, is_reasoning_prompt)
            IN /\ placeholder' = final
               /\ rendering' = "final"
               /\ messages' = IF FinalAppends(variant, full_response, final)
                              THEN Append(messages, Turn("assistant", final))
                              ELSE messages
               /\ UNCHANGED <<error, displayed>>
    /\ UNCHANGED <<config_vars, widget_vars, session_vars, system_prompt, request,
                   n_events, gen_full_response, full_response, history_vars>>

Next ==
    \/ \E m \in Models : SelectModel(m)
    \/ \E c \in PromptChoices : ChoosePrompt(c)
    \/ \E t \in CustomPrompts : EditSystemPrompt(t)
    \/ AdjustParameter
    \/ \E p \in Prompts : Submit(p)
    \/ Sidebar
    \/ \E ok \in BOOLEAN : ClientInit(ok)
    \/ DisplayHistory
    \/ UserInput
    \/ \E response_text \in Responses : ConverseReturns(response_text)
    \/ ConverseRaises
    \/ ConverseStreamReturns
    \/ StreamRaises
    \/ StreamDelivers
    \/ StreamEnds
    \/ Finalize

Spec == Init /\ [][Next]_vars

\* One streamed reply, from the moment the stream is open: the reachable states
\* of the streaming scripts in which a user Turn has just been submitted, with
\* either preset, and the endpoint's stream is about to deliver.
FmtInit ==
    /\ variant \in StreamingVariants
    /\ vocabulary \in StreamVocabularies
    /\ pc = "streaming"
    /\ messages = <<Turn("user", <<"a">>)>>
    /\ selected_model = DEFAULT_MODEL
    /\ MODEL_ID = DEFAULT_MODEL
    /\ prompt_choice \in PromptChoices
    /\ session_prompt = PresetPrompt(prompt_choice)
    /\ text_area_edit = NoEdit
    /\ system_prompt = PresetPrompt(prompt_choice)
    /\ prompt = <<"a">>
    /\ request = [modelId |-> MODEL_ID,
                  messages |-> RequestMessages(messages, prompt),
                  system |-> <<system_prompt>>]
    /\ n_events = 0
    /\ gen_full_response = <<>>
    /\ full_response = <<>>
    /\ placeholder = <<>>
    /\ rendering = "none"
    /\ displayed = <<Turn("user", <<"a">>)>>
    /\ error = "none"
    /\ pre_messages = <<>>
    /\ prev_MODEL_ID = DEFAULT_MODEL
    /\ prev_prompt_choice = prompt_choice
    /\ prev_system_prompt = PresetPrompt(prompt_choice)

FmtNext ==
    \/ StreamDelivers
    \/ StreamRaises
    \/ StreamEnds
    \/ Finalize

FmtSpec == FmtInit /\ [][FmtNext]_vars

(***************************************************************************)
(* Claims                                                                  *)
(***************************************************************************)
\* the inference call of this run failed
CallFailed == error = "request"

\* C1: when the inference call of a submission fails (converse raises, or the
\* stream raises before or after any number of fragments), the Conversation
\* afterwards is the Conversation before the submission plus exactly the
\* submitted user Turn: no assistant Turn is appended.
C1_FailedCallKeepsOnlyUserTurn ==
    (pc = "idle" /\ CallFailed) =>
        messages = Append(pre_messages, Turn("user", prompt))

\* the renderings and the Turn the claim C2 expects for a complete buffer
ExpectedFinal(v, buffer, tagged) ==
    IF v = "stream" THEN format_final_response(buffer, tagged, TRUE)
    ELSE wrap_math_expressions(buffer)

\* C2: in each streaming variant, when the stream ends after delivering at
\* least one non-empty fragment, the final rendering shown and the content of
\* the assistant Turn appended are both computed from the complete buffer, the
\* in-order concatenation of all fragments received.
C2_FinalFromCompleteBuffer ==
    (/\ variant \in StreamingVariants
     /\ rendering = "final" /\ ~CallFailed
     /\ gen_full_response # <<>>) =>
        LET expected == ExpectedFinal(variant, gen_full_response, is_reasoning_prompt)
        IN /\ placeholder = expected
           /\ messages = Append(pre_messages \o <<Turn("user", prompt)>>,
                                Turn("assistant", expected))

\* the sidebar of this run has been executed and the script is before or at its
\* first display or append of a Turn
AfterSidebarOfRun == pc \in {"client", "history", "input"} /\ variant # "chat"

\* C3: in every variant that lets the user select a model, a run in which the
\* selected model differs from the model of the previous run empties the
\* Conversation before any Turn is displayed or appended in that run.
C3_ModelChangeEmptiesConversation ==
    (/\ variant \in ModelPickerVariants
     /\ AfterSidebarOfRun
     /\ MODEL_ID # prev_MODEL_ID) =>
        messages = <<>> /\ displayed = <<>>

\* C4: a run in which the active system instruction (the text sent with
\* requests, preset or free text) differs from that of the previous run empties
\* the Conversation.  Stated for the scripts that track the system prompt.
C4_SystemPromptChangeEmptiesConversation ==
    (/\ TracksPrompt(variant)
     /\ AfterSidebarOfRun
     /\ system_prompt # prev_system_prompt) =>
        messages = <<>>

\* the Conversation in the shape of the request's messages list
ConversationAsApiMessages ==
    [i \in 1..Len(messages) |-> ApiMessage(messages[i].role, messages[i].content)]

\* C5: the messages list of the inference request built for a submission is
\* the ordered list of the Conversation's Turns at that moment (all prior turns
\* followed by the newly submitted user turn), each with its role and text.
C5_RequestCarriesConversation ==
    pc = "call" => request.messages = ConversationAsApiMessages

\* C6: across runs in which neither the selected model nor the selected
\* system-instruction preset changes, the Conversation is append-only: every
\* step of such a run leaves the Conversation a prefix of the next one.
C6_AppendOnly ==
    [][(MODEL_ID = prev_MODEL_ID /\ prompt_choice = prev_prompt_choice)
          => IsPrefix(messages, messages')]_vars

\* C6 witness: a run with unchanged selections has appended to a Conversation
\* that already held an exchange
C6_Witness ==
    /\ pc = "idle"
    /\ MODEL_ID = prev_MODEL_ID /\ prompt_choice = prev_prompt_choice
    /\ Len(pre_messages) >= 2
    /\ Len(messages) = Len(pre_messages) + 2
    /\ IsPrefix(pre_messages, messages)

\* BEGIN_THOUGHT followed by END_THOUGHT
ThoughtClosed(text) ==
    Contains(text, BEGIN_THOUGHT) /\ Contains(AfterFirst(text, BEGIN_THOUGHT), END_THOUGHT)

\* the proper prefixes of the buffer in which the thought section is closed
ClosedPrefixes(text) ==
    {k \in 1..(Len(text) - 1) : ThoughtClosed(SubSeq(text, 1, k))}

\* C7: for both formatters in tagged mode, for any buffer B whose thought
\* section is closed and any non-empty suffix S, the thought content extracted
\* from B+S equals the thought content extracted from B.
C7_ClosedThoughtFrozen ==
    (variant = "stream" /\ is_reasoning_prompt) =>
        \A k \in ClosedPrefixes(full_response) :
            LET B == SubSeq(full_response, 1, k)
            IN /\ StreamingThoughtContent(full_response) = StreamingThoughtContent(B)
               /\ FinalThoughtContent(full_response) = FinalThoughtContent(B)

\* C7 witness: the buffer grew by text holding a further END_THOUGHT after the
\* thought section was closed, and was rendered
C7_Witness ==
    /\ variant = "stream" /\ is_reasoning_prompt
    /\ rendering = "partial"
    /\ \E k \in ClosedPrefixes(full_response) :
          Contains(SubSeq(full_response, k + 1, Len(full_response)), END_THOUGHT)

\* a section's begin marker is in the text and its end marker is nowhere in it
OpenSection(text) ==
    \E sec \in {<<BEGIN_THOUGHT, END_THOUGHT>>, <<BEGIN_SOLUTION, END_SOLUTION>>} :
        Contains(text, sec[1]) /\ ~Contains(text, sec[2])

CarriesWarning(text) == Contains(text, WARNING)

\* C8: in tagged mode a rendering carries the truncation warning iff it is the
\* final rendering and the full buffer has a begin marker without its end
\* marker; no mid-stream rendering carries it; and the warning comes last,
\* after the section content that was extracted.
C8_WarningIffTruncatedFinal ==
    (variant = "stream" /\ is_reasoning_prompt /\ rendering # "none") =>
        /\ CarriesWarning(placeholder)
              <=> (rendering = "final" /\ OpenSection(full_response))
        /\ CarriesWarning(placeholder) =>
              /\ placeholder[Len(placeholder)] = WARNING
              /\ strip(SubSeq(placeholder, 1, Len(placeholder) - 1)) =
                    IF /\ FinalThoughtContent(full_response) = <<>>
                       /\ FinalSolutionContent(full_response) = <<>>
                    THEN <<>>
                    ELSE format_final_response(full_response, TRUE, FALSE)

\* C8 witness: a final rendering that shows partial thought content and, after
\* it, the warning
C8_Witness ==
    /\ variant = "stream" /\ is_reasoning_prompt /\ rendering = "final"
    /\ CarriesWarning(placeholder)
    /\ FinalThoughtContent(full_response) # <<>>
    /\ Len(placeholder) > 1

\* the text after the END_THOUGHT that closes the thought section
AfterThought(text) == AfterFirst(AfterFirst(text, BEGIN_THOUGHT), END_THOUGHT)

\* the solution section of a zone: absent (<<>>), or <<its content>>, from the
\* first BEGIN_SOLUTION to the first END_SOLUTION after it or to the end
SolutionOf(zone) ==
    IF Contains(zone, BEGIN_SOLUTION)
    THEN <<BeforeFirst(AfterFirst(zone, BEGIN_SOLUTION), END_SOLUTION)>>
    ELSE <<>>

\* the solution section format_streaming_response emits
StreamingSolutionEmitted(text) ==
    IF Contains(StreamingSolutionZone(text), BEGIN_SOLUTION)
    THEN <<StreamingSolutionContent(text)>>
    ELSE <<>>

\* the thought section is closed and no END_THOUGHT precedes its BEGIN_THOUGHT
ThoughtClosedInOrder(text) ==
    ThoughtClosed(text) /\ ~Contains(BeforeFirst(text, BEGIN_THOUGHT), END_THOUGHT)

\* C9: in both formatters, once END_THOUGHT is present the solution section is
\* located only in the text after END_THOUGHT: text inside a closed thought
\* section is never emitted as solution content.  Stated for buffers whose
\* thought markers are in order.
C9_SolutionOnlyAfterThought ==
    (variant = "stream" /\ is_reasoning_prompt /\ ThoughtClosedInOrder(full_response)) =>
        LET expected == SolutionOf(AfterThought(full_response))
        IN /\ rendering = "partial" =>
                 StreamingSolutionEmitted(full_response) = expected
           /\ rendering = "final" =>
                 FinalSolutionContent(full_response) =
                     IF expected = <<>> THEN <<>> ELSE strip(expected[1])

\* positions of a "$$" delimiter
Delimiters(text) ==
    {i \in 1..(Len(text) - 1) : text[i] = DOLLAR /\ text[i + 1] = DOLLAR}

IsSuffix(s, t) == Len(s) <= Len(t) /\ SubSeq(t, Len(t) - Len(s) + 1, Len(t)) = s

\* C10: format_latex leaves unbalanced math delimiters as literal text: when a
\* "$$" delimiter (inline, or a fence line) has no matching closing delimiter,
\* that delimiter and all text after it appear unchanged in the output.  (An
\* input on which format_latex returns has no matched pair at all, so its first
\* delimiter is unmatched.)
C10_UnmatchedDelimiterLiteral ==
    (/\ variant = "stream" /\ ~is_reasoning_prompt /\ rendering = "partial"
     /\ Delimiters(full_response) # {}
     /\ ~format_latex_raises(full_response)) =>
        IsSuffix(SubSeq(full_response, Min(Delimiters(full_response)), Len(full_response)),
                 format_latex(full_response))

\* the buffer is one inline math span: "$$", a content without "$" or newline,
\* "$$"
IsMathSpan(text) ==
    /\ Len(text) >= 4
    /\ SubSeq(text, 1, 2) = <<DOLLAR, DOLLAR>>
    /\ SubSeq(text, Len(text) - 1, Len(text)) = <<DOLLAR, DOLLAR>>
    /\ \A i \in 3..(Len(text) - 2) : text[i] \notin {DOLLAR, NL}

SpanContent(text) == SubSeq(text, 3, Len(text) - 2)

\* orders of the table's rows other than the code's: the reverse order, and
\* each row moved in front of all the rows above it
ReverseOrder == [k \in 1..Len(SYMBOL_TABLE) |-> Len(SYMBOL_TABLE) + 1 - k]

MoveToFront(r) ==
    [k \in 1..Len(SYMBOL_TABLE) |-> IF k = 1 THEN r ELSE IF k <= r THEN k - 1 ELSE k]

OtherOrders == {ReverseOrder} \cup {MoveToFront(r) : r \in 2..Len(SYMBOL_TABLE)}

\* the control sequences of the table
ControlSequences == {SYMBOL_TABLE[r][1] : r \in 1..Len(SYMBOL_TABLE)}

\* a non-empty text made of control sequences of the table, one after the other
BuiltFromTable(expr) ==
    /\ expr # <<>>
    /\ expr[1] = BACKSLASH
    /\ \A i \in 1..Len(expr) :
          expr[i] = BACKSLASH =>
              LET later == {j \in (i + 1)..Len(expr) : expr[j] = BACKSLASH}
                  last == IF later = {} THEN Len(expr) ELSE Min(later) - 1
              IN SubSeq(expr, i, last) \in ControlSequences

\* C11: symbol substitution inside a math span does not depend on the order of
\* the table's substitutions, and every control sequence of the table
\* (including \infty, \notin, \leftrightarrow) is replaced by its own glyph:
\* when the buffer is a math span whose content is built from the table's
\* control sequences, the span is rewritten (the rendering does not abort), the
\* code's order gives what every other order gives, and a content that is one
\* control sequence becomes that sequence's glyph.
C11_SubstitutionOrderIrrelevant ==
    (/\ variant = "stream"
     /\ IsMathSpan(full_response)
     /\ BuiltFromTable(SpanContent(full_response))) =>
        LET expr == SpanContent(full_response)
            substituted == SubstituteInOrder(expr, CodeOrder, 1)
        IN /\ error # "AttributeError"
           /\ \A order \in OtherOrders : SubstituteInOrder(expr, order, 1) = substituted
           /\ \A r \in 1..Len(SYMBOL_TABLE) :
                 expr = SYMBOL_TABLE[r][1] => substituted = <<SYMBOL_TABLE[r][2]>>

\* the set-operator glyphs and their natural-language phrases
GlyphPhrase ==
    (CUP :> "union") @@ (CAP :> "intersect") @@ (SUBSET_GLYPH :> "is a subset of")
        @@ (SUPSET_GLYPH :> "is a superset of") @@ (ELEMENT_GLYPH :> "is an element of")
        @@ (NOT_ELEMENT_GLYPH :> "is not an element of")

IsWord(w) == w # <<>> /\ \A i \in 1..Len(w) : IsLetter(w[i])

\* the positions g at which the text is one set operation: a word, optional
\* spaces, the glyph at g, optional spaces, a word, and nothing else
OperationAt(text) ==
    {g \in 2..(Len(text) - 1) :
        /\ text[g] \in DOMAIN GlyphPhrase
        /\ IsWord(strip(SubSeq(text, 1, g - 1))) /\ IsLetter(text[1])
        /\ IsWord(strip(SubSeq(text, g + 1, Len(text)))) /\ IsLetter(text[Len(text)])}

\* C12: process_math_expressions rewrites a set-operator glyph into its phrase
\* only when both operands are single letters; when an operand is a word of
\* several letters the glyph is left in symbolic form.  Stated on the rendering
\* of a buffer that is one set operation.
C12_OnlySingleLetterOperands ==
    (variant = "stream" /\ rendering = "partial") =>
        \A g \in OperationAt(full_response) :
            LET left == strip(SubSeq(full_response, 1, g - 1))
                right == strip(SubSeq(full_response, g + 1, Len(full_response)))
            IN placeholder =
                   (IF Len(left) = 1 /\ Len(right) = 1
                    THEN left \o <<SP, GlyphPhrase[full_response[g]], SP>> \o right
                    ELSE full_response) \o <<CURSOR>>

\* the four marker strings
MarkerStrings == {BEGIN_THOUGHT, END_THOUGHT, BEGIN_SOLUTION, END_SOLUTION}

\* C13: in tagged mode the output of format_final_response contains none of the
\* four marker strings, whatever the buffer (sections empty, open, duplicated or
\* out of order).
C13_FinalOutputHasNoMarkers ==
    (variant = "stream" /\ is_reasoning_prompt /\ rendering = "final") =>
        \A i \in 1..Len(placeholder) : placeholder[i] \notin MarkerStrings

\* the StreamBuffer of a variant: the consumer's full_response in
\* 1-multimodel_chat_clean_stream.py, the generator's in the latex variant
StreamBuffer(v, consumer_buffer, generator_buffer) ==
    IF v = "stream" THEN consumer_buffer ELSE generator_buffer

\* the intermediate rendering of a buffer
IntermediateRendering(v, buffer, tagged) ==
    IF v = "stream" THEN format_streaming_response(buffer, tagged)
    ELSE wrap_math_expressions(buffer) \o <<CURSOR>>

\* C14: for a stream delivering fragments f1..fn, the StreamBuffer after the
\* k-th fragment is f1+...+fk (each buffer is a prefix of the next), every
\* non-empty fragment produces one intermediate rendering, computed from the
\* buffer at that point, in fragment order, and the final rendering comes after
\* all intermediate renderings.
C14_OneRenderingPerFragment ==
    [][/\ n_events' = n_events + 1 =>
            LET before == StreamBuffer(variant, full_response, gen_full_response)
                after == StreamBuffer(variant, full_response', gen_full_response')
            IN /\ IsPrefix(before, after)
               /\ after = gen_full_response'
               /\ after # before =>
                     /\ rendering' = "partial"
                     /\ placeholder' = IntermediateRendering(variant, after,
                                                             is_reasoning_prompt)
       /\ rendering = "final" => rendering' = "final"
      ]_vars

\* C15: every rendering format_streaming_response returns, in either mode and
\* for any buffer, ends with the streaming cursor, and for the empty buffer it
\* is the cursor alone; format_final_response never appends the cursor and
\* returns the empty text for the empty buffer.
C15_CursorOnlyWhileStreaming ==
    variant = "stream" =>
        /\ format_streaming_response(<<>>, is_reasoning_prompt) = <<CURSOR>>
        /\ \A complete \in BOOLEAN :
              /\ format_final_response(<<>>, is_reasoning_prompt, complete) = <<>>
              /\ ~format_final_response_raises(full_response, is_reasoning_prompt, complete)
                    => ~Contains(format_final_response(full_response, is_reasoning_prompt,
                                                       complete), CURSOR)
        /\ rendering = "partial" =>
              /\ placeholder # <<>>
              /\ placeholder[Len(placeholder)] = CURSOR
              /\ ~Contains(SubSeq(placeholder, 1, Len(placeholder) - 1), CURSOR)
        /\ rendering = "final" => ~Contains(placeholder, CURSOR)

\* C15 witness: an intermediate rendering of a tagged buffer in which the
\* solution section has begun is on display, the cursor after its last lexeme
C15_Witness ==
    /\ variant = "stream" /\ is_reasoning_prompt /\ rendering = "partial"
    /\ Contains(full_response, BEGIN_SOLUTION)
    /\ Contains(placeholder, "### Solutio")
    /\ placeholder[Len(placeholder)] = CURSOR

\* the number of lexemes c in text[i..j]
Count(text, i, j, c) == Cardinality({k \in i..j : text[k] = c})

\* the closing parenthesis that matches the opening one at i: the first
\* position after i up to which as many parentheses close as open; 0 if none
Closer(text, i) ==
    LET balanced == {j \in (i + 1)..Len(text) :
                        Count(text, i, j, LPAREN) = Count(text, i, j, RPAREN)}
    IN IF balanced = {} THEN 0 ELSE Min(balanced)

\* a parenthesised span starts at i and its content holds a backslash or a caret
IsMathParen(text, i) ==
    /\ text[i] = LPAREN
    /\ Closer(text, i) # 0
    /\ \E k \in (i + 1)..(Closer(text, i) - 1) : text[k] \in {BACKSLASH, CARET}

\* position i lies inside such a span that starts before it
InsideMathParen(text, i) ==
    \E h \in 1..(i - 1) : IsMathParen(text, h) /\ i <= Closer(text, h)

\* what position i contributes to the output
WrappedPiece(text, i) ==
    IF InsideMathParen(text, i) THEN <<>>
    ELSE IF IsMathParen(text, i)
    THEN <<DOLLAR>> \o strip(SubSeq(text, i + 1, Closer(text, i) - 1)) \o <<DOLLAR>>
    ELSE <<text[i]>>

RECURSIVE WrappedUpTo(_, _)
WrappedUpTo(text, n) ==
    IF n = 0 THEN <<>> ELSE WrappedUpTo(text, n - 1) \o WrappedPiece(text, n)

\* C16: wrap_math_expressions, scanning left to right, replaces an opening
\* parenthesis, its matching closing parenthesis and the content between them by
\* "$", the content trimmed, "$", exactly when the matching closing parenthesis
\* exists and the content holds a backslash or a caret; every other character
\* (unmatched parentheses, spans without backslash or caret) is copied unchanged
\* and in order; the scan ends on every input.  Stated on the intermediate
\* renderings of the latex variant.
C16_WrapsExactlyMathParens ==
    variant = "latex" =>
        /\ wrap_math_expressions(gen_full_response)
               = WrappedUpTo(gen_full_response, Len(gen_full_response))
        /\ rendering = "partial" =>
               placeholder = WrappedUpTo(gen_full_response, Len(gen_full_response))
                                 \o <<CURSOR>>

\* C16 witness: a rendering in which an unmatched parenthesis was copied and a
\* parenthesised span holding a caret or a backslash was wrapped
C16_Witness ==
    /\ variant = "latex" /\ rendering = "partial"
    /\ \E i \in 1..Len(gen_full_response) :
          gen_full_response[i] = LPAREN /\ Closer(gen_full_response, i) = 0
    /\ \E i \in 1..Len(gen_full_response) : IsMathParen(gen_full_response, i)
    /\ Contains(placeholder, DOLLAR) /\ Contains(placeholder, LPAREN)

\* C17: when the creation of the endpoint client fails in a run, the run stops
\* there: no user Turn is appended, no inference request is issued and no
\* assistant Turn is appended in that run.  (The Conversation is the one the
\* run started with, or empty when the sidebar, which runs before the client is
\* created in four of the scripts, has reset it.)
C17_ClientFailureStopsRun ==
    error = "client" =>
        /\ pc = "idle"
        /\ request = NoRequest
        /\ displayed = <<>>
        /\ messages = pre_messages \/ messages = <<>>

\* C17 witness: the client could not be created in the run of a submission,
\* after an earlier exchange
C17_Witness ==
    /\ error = "client" /\ pc = "idle"
    /\ prompt # NoPrompt
    /\ Len(messages) >= 2 /\ messages = pre_messages

\* C18: each user submission issues exactly one inference request; no second
\* request is issued while one is in flight, and a failed request is never
\* reissued by the script: the call is entered only from the input handler, in a
\* run with a submitted prompt that has issued no request yet; the request of a
\* run changes only there, or when a user interaction starts a new run; and
\* after a failure nothing is issued before a new run.
C18_OneRequestPerSubmission ==
    [][/\ (pc' = "call" /\ pc # "call") =>
             pc = "input" /\ prompt # NoPrompt /\ request = NoRequest
       /\ (pc = "input" /\ prompt # NoPrompt) => (pc' = "call" /\ request' # NoRequest)
       /\ request' # request =>
             \/ pc = "input" /\ request = NoRequest
             \/ pc = "idle" /\ request' = NoRequest
       /\ (error = "request" /\ error' = "request") => (request' = request /\ pc' # "call")
      ]_vars

\* C18 witness: a second submission has issued its request after the request of
\* an earlier submission failed
C18_Witness ==
    /\ pc = "call" /\ request # NoRequest
    /\ Len(pre_messages) = 1 /\ pre_messages[1].role = "user"
    /\ Len(messages) = 2 /\ messages[2].role = "user"

RenderedThought(rendered) ==
    LET text == SubSeq(rendered, 1, Len(rendered) - 1)
    IN strip(BeforeFirst(text, SOLUTION_HEADING[1]))

\* C20: in format_streaming_response, once the thought section is closed, the
\* rendered thought portion (heading and rewritten thought text) is the same
\* for the buffer and for every extension of it, extensions in which the
\* solution section begins included: the cosmetic pass that runs again over the
\* rendered thought text when the solution is appended does not change it.
C20_RenderedThoughtFrozen ==
    (variant = "stream" /\ is_reasoning_prompt /\ rendering = "partial") =>
        \A k \in ClosedPrefixes(full_response) :
            LET B == SubSeq(full_response, 1, k)
            IN ~format_streaming_response_raises(B, TRUE) =>
                   RenderedThought(format_streaming_response(B, TRUE))
                       = RenderedThought(placeholder)


\* a rendering of format_streaming_response with its trailing cursor removed
WithoutCursor(rendered) ==
    IF Len(rendered) > 0 /\ rendered[Len(rendered)] = CURSOR
    THEN SubSeq(rendered, 1, Len(rendered) - 1)
    ELSE rendered

\* C21: for every complete buffer in tagged mode in which no section is left
\* open, the last streaming rendering with its trailing cursor removed equals
\* the final rendering: the text on display does not change when the stream
\* ends.  The two are compared up to surrounding white space, which only the
\* final rendering always trims.
C21_FinalEqualsLastStreamed ==
    (/\ variant = "stream" /\ is_reasoning_prompt
     /\ rendering = "final" /\ error = "none"
     /\ full_response # <<>>
     /\ ~OpenSection(full_response)) =>
        strip(placeholder) =
            strip(WithoutCursor(format_streaming_response(full_response, TRUE)))


\* the Conversation is empty or starts with a user Turn, and every assistant
\* Turn comes immediately after a user Turn
Alternates(conversation) ==
    /\ conversation = <<>> \/ conversation[1].role = "user"
    /\ \A i \in 1..Len(conversation) :
          conversation[i].role = "assistant" =>
              i > 1 /\ conversation[i - 1].role = "user"

\* C22: in every variant and after any sequence of submissions, successes,
\* failures and configuration resets, the Conversation is either empty or
\* starts with a user Turn, and every assistant Turn is immediately preceded by
\* a user Turn: there are never two consecutive assistant Turns.
C22_AssistantFollowsUser ==
    Alternates(messages)

\* C22 witness: after a failed submission and a successful one, the
\* Conversation holds two user Turns and then the assistant Turn
C22_Witness ==
    /\ pc = "idle"
    /\ Len(messages) = 3
    /\ messages[1].role = "user" /\ messages[2].role = "user"
    /\ messages[3].role = "assistant"

=============================================================================
